---- MODULE Spec2Model ----
(***************************************************************************)
(* A model of package pwned (pwned.go): IsPwned, IsPwnedAsync and getHash. *)
(*                                                                         *)
(* Go strings are modelled as sequences of one-character strings, so that  *)
(* strings.Split, slicing and concatenation act on characters.  A 32-bit   *)
(* word of SHA-1 is a sequence of 32 bits, most significant bit first.     *)
(* A uint64 is its canonical decimal numeral (a sequence of digits with no *)
(* leading zero), which keeps the full 64-bit range of strconv.ParseUint.  *)
(***************************************************************************)
EXTENDS Integers, Sequences, FiniteSets, TLC

(***************************************************************************)
(* Characters and bytes.                                                   *)
(***************************************************************************)
LowerHex == <<"0","1","2","3","4","5","6","7","8","9","a","b","c","d","e","f">>
UpperHex == <<"0","1","2","3","4","5","6","7","8","9","A","B","C","D","E","F">>
Letters  == <<"a","b","c","d","e","f","g","h","i","j","k","l","m",
              "n","o","p","q","r","s","t","u","v","w","x","y","z">>
Digits   == {"0","1","2","3","4","5","6","7","8","9"}

IndexOf(seq, ch) == CHOOSE k \in 1..Len(seq) : seq[k] = ch

\* The byte (ASCII code) of a character of a password.
ByteOf(ch) == 96 + IndexOf(Letters, ch)

\* A function on 1..n as the sequence of its values.
AsSeq(f) == f \o <<>>

\* n (below 2^31) as w bits, most significant first.
ToBits(n, w) == AsSeq([k \in 1..w |-> IF w - k >= 31 THEN 0 ELSE (n \div 2^(w - k)) % 2])

\* The number written by the m bits of x that start at position k.
Nibble(x, k)  == 8 * x[k] + 4 * x[k + 1] + 2 * x[k + 2] + x[k + 3]
Octet(x, k)   == 16 * Nibble(x, k) + Nibble(x, k + 4)
HalfWord(x, k) == 256 * Octet(x, k) + Octet(x, k + 8)

\* The concatenation of the sequences of ss, each of length m.
Concat(ss, m) == AsSeq([k \in 1..(m * Len(ss)) |-> ss[((k - 1) \div m) + 1][((k - 1) % m) + 1]])

Zeros(n) == AsSeq([k \in 1..n |-> 0])

(***************************************************************************)
(* crypto/sha1: the SHA-1 digest (FIPS 180-4) of a byte string.  The steps *)
(* are functions, so that each is applied to the value of its arguments.   *)
(***************************************************************************)
Bit   == {0, 1}
Word  == Seq(Bit)
Bytes == Seq(0..255)

HexWord(h) == Concat([k \in 1..Len(h) |-> ToBits(IndexOf(UpperHex, h[k]) - 1, 4)], 4)

Xor[x \in Word, y \in Word] == AsSeq([k \in 1..Len(x) |-> (x[k] + y[k]) % 2])
And[x \in Word, y \in Word] == AsSeq([k \in 1..Len(x) |-> x[k] * y[k]])
Or[x \in Word, y \in Word]  == AsSeq([k \in 1..Len(x) |-> IF x[k] + y[k] > 0 THEN 1 ELSE 0])
Not[x \in Word]             == AsSeq([k \in 1..Len(x) |-> 1 - x[k]])
RotL[x \in Word, n \in 0..32] == SubSeq(x, n + 1, Len(x)) \o SubSeq(x, 1, n)

\* Addition modulo 2^32, by 16-bit halves with the carry between them.
Add32[x \in Word, y \in Word] ==
    LET lo == HalfWord(x, 17) + HalfWord(y, 17)
        hi == HalfWord(x, 1) + HalfWord(y, 1) + (lo \div 65536)
    IN  ToBits(hi % 65536, 16) \o ToBits(lo % 65536, 16)

Sha1Init == << HexWord(<<"6","7","4","5","2","3","0","1">>),
               HexWord(<<"E","F","C","D","A","B","8","9">>),
               HexWord(<<"9","8","B","A","D","C","F","E">>),
               HexWord(<<"1","0","3","2","5","4","7","6">>),
               HexWord(<<"C","3","D","2","E","1","F","0">>) >>

Sha1K == << HexWord(<<"5","A","8","2","7","9","9","9">>),
            HexWord(<<"6","E","D","9","E","B","A","1">>),
            HexWord(<<"8","F","1","B","B","C","D","C">>),
            HexWord(<<"C","A","6","2","C","1","D","6">>) >>

\* The message padded to a multiple of 512 bits: a 1 bit, zeros, the bit length.
Sha1Pad[bytes \in Bytes] ==
    LET msg  == Concat([k \in 1..Len(bytes) |-> ToBits(bytes[k], 8)], 8)
        used == (8 * Len(bytes) + 1 + 64) % 512
        fill == IF used = 0 THEN 0 ELSE 512 - used
    IN  msg \o <<1>> \o Zeros(fill) \o ToBits(8 * Len(bytes), 64)

\* The message schedule: words lo..hi appended to words 1..lo-1, in order.
Sha1Schedule[w \in Seq(Word), lo \in 17..80, hi \in 17..80] ==
    IF lo = hi
    THEN Append(w, RotL[Xor[Xor[w[lo - 3], w[lo - 8]], Xor[w[lo - 14], w[lo - 16]]], 1])
    ELSE Sha1Schedule[Sha1Schedule[w, lo, (lo + hi) \div 2], ((lo + hi) \div 2) + 1, hi]

Sha1F(t, b, c, d) ==
    IF t <= 20 THEN Or[And[b, c], And[Not[b], d]]
    ELSE IF t <= 40 THEN Xor[Xor[b, c], d]
    ELSE IF t <= 60 THEN Or[Or[And[b, c], And[b, d]], And[c, d]]
    ELSE Xor[Xor[b, c], d]

\* Round t on the working variables v = <<a, b, c, d, e>>.
Sha1Round(v, w, t) ==
    << Add32[Add32[Add32[RotL[v[1], 5], Sha1F(t, v[2], v[3], v[4])],
                   Add32[v[5], Sha1K[((t - 1) \div 20) + 1]]],
             w[t]],
       v[1], RotL[v[2], 30], v[3], v[4] >>

\* Rounds lo..hi in order, the first half before the second.
Sha1Rounds[v \in Seq(Word), w \in Seq(Word), lo \in 1..80, hi \in 1..80] ==
    IF lo = hi THEN Sha1Round(v, w, lo)
    ELSE Sha1Rounds[Sha1Rounds[v, w, lo, (lo + hi) \div 2], w, ((lo + hi) \div 2) + 1, hi]

AddWords[x \in Seq(Word), y \in Seq(Word)] == AsSeq([k \in 1..Len(x) |-> Add32[x[k], y[k]]])

\* The digest state after the 512-bit blocks of bits, starting from h.
Sha1Blocks[h \in Seq(Word), bits \in Seq(Bit)] ==
    IF bits = <<>> THEN h
    ELSE LET w == Sha1Schedule[AsSeq([k \in 1..16 |-> SubSeq(bits, 32 * (k - 1) + 1, 32 * k)]),
                               17, 80]
         IN  Sha1Blocks[AddWords[h, Sha1Rounds[h, w, 1, 80]], SubSeq(bits, 513, Len(bits))]

\* The 20 bytes of a digest state of five words.
DigestBytes[h \in Seq(Word)] ==
    AsSeq([k \in 1..20 |-> Octet(h[((k - 1) \div 4) + 1], 8 * ((k - 1) % 4) + 1)])

\* h.Sum(nil)
Sha1Sum[bytes \in Bytes] == DigestBytes[Sha1Blocks[Sha1Init, Sha1Pad[bytes]]]

\* fmt.Sprintf("%x", bytes): two lower-case hexadecimal digits per byte.
SprintfHex[bytes \in Bytes] ==
    Concat([k \in 1..Len(bytes) |->
               <<LowerHex[(bytes[k] \div 16) + 1], LowerHex[(bytes[k] % 16) + 1]>>], 2)

\* strings.ToUpper on the characters the model uses.
ToUpperChar(ch) ==
    IF \E k \in 11..16 : LowerHex[k] = ch THEN UpperHex[IndexOf(LowerHex, ch)]
    ELSE ch
ToUpper[s \in Seq(STRING)] == AsSeq([k \in 1..Len(s) |-> ToUpperChar(s[k])])

(***************************************************************************)
(* strings and strconv.                                                    *)
(***************************************************************************)
\* strings.Index: the position of the first occurrence of sep in s, 0 if none.
Index(s, sep) ==
    LET at == {k \in 1..(Len(s) - Len(sep) + 1) : SubSeq(s, k, k + Len(sep) - 1) = sep}
    IN  IF at = {} THEN 0 ELSE CHOOSE k \in at : \A j \in at : k <= j

\* strings.Split(s, sep) for a non-empty sep: the substrings between the
\* occurrences of sep, taken from the left.
RECURSIVE Split(_, _)
Split(s, sep) ==
    LET k == Index(s, sep)
    IN  IF k = 0 THEN <<s>>
        ELSE <<SubSeq(s, 1, k - 1)>> \o Split(SubSeq(s, k + Len(sep), Len(s)), sep)

DigitVal(ch) == IndexOf(UpperHex, ch) - 1

\* The decimal numeral of a string of digits, without leading zeros.
Numeral(ds) ==
    LET nz == {k \in 1..Len(ds) : ds[k] # "0"}
    IN  IF nz = {} THEN <<"0">>
        ELSE SubSeq(ds, CHOOSE k \in nz : \A j \in nz : k <= j, Len(ds))

\* a > b, for numerals a and b.
NumeralGreater(a, b) ==
    \/ Len(a) > Len(b)
    \/ /\ Len(a) = Len(b)
       /\ \E k \in 1..Len(a) : /\ DigitVal(a[k]) > DigitVal(b[k])
                               /\ \A j \in 1..(k - 1) : a[j] = b[j]

\* 1<<64 - 1, the largest uint64.
MaxUint64 == <<"1","8","4","4","6","7","4","4","0","7","3","7","0","9","5","5","1","6","1","5">>

\* ParseUint with the range check off by one: MaxUint64 itself is out of range.
ParseUintStrict(s) ==
    LET bad(k)  == s[k] \notin Digits
        over(k) == ~NumeralGreater(MaxUint64, Numeral(SubSeq(s, 1, k)))
        fails   == {k \in 1..Len(s) : bad(k) \/ ((\A j \in 1..k : ~bad(j)) /\ over(k))}
        first   == CHOOSE k \in fails : \A j \in fails : k <= j
    IN  IF s = <<>> THEN [n |-> <<"0">>, err |-> "ErrSyntax"]
        ELSE IF fails = {} THEN [n |-> Numeral(s), err |-> "nil"]
        ELSE IF bad(first) THEN [n |-> <<"0">>, err |-> "ErrSyntax"]
        ELSE [n |-> MaxUint64, err |-> "ErrRange"]

\* strconv.ParseUint(s, 10, 64): the characters are taken from the left; a
\* character that is no digit is a syntax error, a value above MaxUint64 a
\* range error, whichever comes first.
ParseUint(s) ==
    LET bad(k)  == s[k] \notin Digits
        over(k) == NumeralGreater(Numeral(SubSeq(s, 1, k)), MaxUint64)
        fails   == {k \in 1..Len(s) : bad(k) \/ ((\A j \in 1..k : ~bad(j)) /\ over(k))}
        first   == CHOOSE k \in fails : \A j \in fails : k <= j
    IN  IF s = <<>> THEN [n |-> <<"0">>, err |-> "ErrSyntax"]
        ELSE IF fails = {} THEN [n |-> Numeral(s), err |-> "nil"]
        ELSE IF bad(first) THEN [n |-> <<"0">>, err |-> "ErrSyntax"]
        ELSE [n |-> MaxUint64, err |-> "ErrRange"]

(***************************************************************************)
(* getHash and the values of IsPwned.                                      *)
(***************************************************************************)
\* hash[0:5]
RangeLen == 5

getHash(pw) ==
    LET hex == ToUpper[SprintfHex[Sha1Sum[AsSeq([k \in 1..Len(pw) |-> ByteOf(pw[k])])]]]
    IN  [Hash |-> hex, Range |-> SubSeq(hex, 1, RangeLen)]

Endpoint == <<"h","t","t","p","s",":","/","/","a","p","i",".","p","w","n","e","d",
              "p","a","s","s","w","o","r","d","s",".","c","o","m","/","r","a","n","g","e","/">>

\* A GET that names the whole fingerprint instead of its range.
RequestURLFull(h) == Endpoint \o h.Hash

\* The URL of the GET.
RequestURL(h) == Endpoint \o h.Range

CRLF  == <<"\r","\n">>
Colon == <<":">>

\* hash.Range+resultHash == hash.Hash
Matches(h, resultHash) == h.Range \o resultHash = h.Hash

NilResult == [ptr |-> "nil"]
Result(pwned, timesObserved) == [Pwned |-> pwned, TimesObserved |-> timesObserved]

\* An error returned beside a zero Result instead of nil.
ReturnErrorWithResult(e) == [result |-> Result(FALSE, <<"0">>), err |-> e]

\* return nil, err
ReturnError(e) == [result |-> NilResult, err |-> e]
\* return &ret, nil
ReturnResult(r) == [result |-> r, err |-> "nil"]

\* An iteration that parses the count of every line before it compares the
\* suffix.
ScanStepEager(h, line) ==
    LET components == Split(line, Colon)
    IN  IF Len(components) < 2 THEN [kind |-> "panic"]
        ELSE LET resultHash == components[1]
                 countStr   == components[2]
                 count      == ParseUint(countStr)
             IN  IF count.err # "nil"
                 THEN [kind |-> "return", ret |-> ReturnError(count.err)]
                 ELSE IF Matches(h, resultHash)
                 THEN [kind |-> "return", ret |-> ReturnResult(Result(TRUE, count.n))]
                 ELSE [kind |-> "continue"]

\* One iteration of the loop over the lines: an index out of range at
\* components[1] panics, a matching line returns, any other line continues.
ScanStep(h, line) ==
    LET components == Split(line, Colon)
    IN  IF Len(components) < 2 THEN [kind |-> "panic"]
        ELSE LET resultHash == components[1]
                 countStr   == components[2]
                 count      == ParseUint(countStr)
             IN  IF Matches(h, resultHash)
                 THEN IF count.err # "nil"
                      THEN [kind |-> "return", ret |-> ReturnError(count.err)]
                      ELSE [kind |-> "return", ret |-> ReturnResult(Result(TRUE, count.n))]
                 ELSE [kind |-> "continue"]

(***************************************************************************)
(* The inputs: passwords, and the responses of the service.                *)
(***************************************************************************)
\* "password" and "blic" have fingerprints with the same first five
\* characters; the empty password has another range.
PasswordList == << <<"p","a","s","s","w","o","r","d">>, <<"b","l","i","c">>, <<>> >>
Passwords == { PasswordList[k] : k \in 1..Len(PasswordList) }

\* getHash of each password, computed once.
FingerprintList == AsSeq([k \in 1..Len(PasswordList) |-> getHash(PasswordList[k])])
Fingerprint(p) == FingerprintList[IndexOf(PasswordList, p)]

\* The 35 characters of a fingerprint after its range.
SuffixOf(h) == SubSeq(h.Hash, RangeLen + 1, Len(h.Hash))

\* The most lines a response body holds.
MaxLines == 2

GoodCount     == <<"3","7","3","0","4","7","1">>
OverflowCount == <<"1","8","4","4","6","7","4","4","0","7","3","7","0","9","5","5","1","6","1","6">>
BadCount      == <<"1","x">>

\* The suffixes the service lists under the range of "password": that of
\* "password" and that of "blic".
Suffixes == << SuffixOf(FingerprintList[1]), SuffixOf(FingerprintList[2]) >>

\* SUFFIX:COUNT lines with counts that parse, overflow or are no number, a
\* line without its colon and count, and a line with a second colon.
Lines == { Suffixes[1] \o Colon \o cnt : cnt \in {GoodCount, MaxUint64, OverflowCount, BadCount} }
         \cup { Suffixes[2] \o Colon \o cnt : cnt \in {GoodCount, BadCount} }
         \cup { Suffixes[1] }
         \cup { Suffixes[1] \o Colon \o <<"7">> \o Colon \o BadCount }

RECURSIVE JoinLines(_)
JoinLines(ls) ==
    IF ls = <<>> THEN <<>>
    ELSE IF Len(ls) = 1 THEN ls[1]
    ELSE ls[1] \o CRLF \o JoinLines(Tail(ls))

\* Bodies of at most n lines separated by CRLF, the last line terminated or not.
BodiesOf(n) == { JoinLines(ls) \o end : ls \in UNION { [1..m -> Lines] : m \in 0..n },
                                        end \in { <<>>, CRLF } }
Bodies == BodiesOf(MaxLines)

Statuses == {200, 429}

(***************************************************************************)
(* The state: one record of local variables per call of IsPwned.           *)
(***************************************************************************)
Calls == {"c1", "c2"}

VARIABLES
    pc,         \* where each call is: "idle", "get" (in http.Get), "read" (in
                \* ioutil.ReadAll), "scan" (in the loop), "returned", "panicked",
                \* "done" (the callback has returned)
    mode,       \* "sync" for IsPwned, "async" for IsPwnedAsync
    password,   \* the argument
    hash,       \* getHash(password)
    request,    \* the URL of the GET that was sent
    resp,       \* the response: its status code and the bytes of its body
    lines,      \* strings.Split(string(body), "\r\n")
    idx,        \* the position of the loop in lines
    ret,        \* what IsPwned returned: [result, err]
    delivered   \* the (result, err) pairs cb was invoked with, in order

vars == <<pc, mode, password, hash, request, resp, lines, idx, ret, delivered>>

NoHash == [Hash |-> <<>>, Range |-> <<>>]
NoResp == [StatusCode |-> 0, Body |-> <<>>]
NoRet  == [result |-> NilResult, err |-> "nil"]

Init ==
    /\ pc = [c \in Calls |-> "idle"]
    /\ mode = [c \in Calls |-> "sync"]
    /\ password = [c \in Calls |-> <<>>]
    /\ hash = [c \in Calls |-> NoHash]
    /\ request = [c \in Calls |-> <<>>]
    /\ resp = [c \in Calls |-> NoResp]
    /\ lines = [c \in Calls |-> <<>>]
    /\ idx = [c \in Calls |-> 0]
    /\ ret = [c \in Calls |-> NoRet]
    /\ delivered = [c \in Calls |-> <<>>]

\* A panic in the goroutine of IsPwnedAsync is recovered nowhere: it ends the
\* process and every call with it.
Crashed == \E c \in Calls : pc[c] = "panicked" /\ mode[c] = "async"

\* Lines 38-39: the fingerprint is computed and the GET is sent.
Begin(c, p) ==
    /\ pc' = [pc EXCEPT ![c] = "get"]
    /\ password' = [password EXCEPT ![c] = p]
    /\ hash' = [hash EXCEPT ![c] = Fingerprint(p)]
    /\ request' = [request EXCEPT ![c] = RequestURL(Fingerprint(p))]
    /\ UNCHANGED <<resp, lines, idx, ret, delivered>>

\* IsPwned(password), called by the program.
IsPwned(c, p) ==
    /\ ~Crashed
    /\ pc[c] = "idle"
    /\ mode' = [mode EXCEPT ![c] = "sync"]
    /\ Begin(c, p)

\* IsPwnedAsync(password, cb): go func() { cb(IsPwned(password)) }()
IsPwnedAsync(c, p) ==
    /\ ~Crashed
    /\ pc[c] = "idle"
    /\ mode' = [mode EXCEPT ![c] = "async"]
    /\ Begin(c, p)

Return(c, r) ==
    /\ pc' = [pc EXCEPT ![c] = "returned"]
    /\ ret' = [ret EXCEPT ![c] = r]

\* Lines 39-42: http.Get returns an error.
HttpGetFails(c) ==
    /\ ~Crashed
    /\ pc[c] = "get"
    /\ Return(c, ReturnError("GetError"))
    /\ UNCHANGED <<mode, password, hash, request, resp, lines, idx, delivered>>

\* Line 39: http.Get returns a response.
HttpGetResponds(c, status, body) ==
    /\ ~Crashed
    /\ pc[c] = "get"
    /\ pc' = [pc EXCEPT ![c] = "read"]
    /\ resp' = [resp EXCEPT ![c] = [StatusCode |-> status, Body |-> body]]
    /\ UNCHANGED <<mode, password, hash, request, lines, idx, ret, delivered>>

\* Lines 45-48: ioutil.ReadAll returns an error.
ReadAllFails(c) ==
    /\ ~Crashed
    /\ pc[c] = "read"
    /\ Return(c, ReturnError("ReadError"))
    /\ UNCHANGED <<mode, password, hash, request, resp, lines, idx, delivered>>

\* Lines 45-49: the body is read and split into lines.
ReadAll(c) ==
    /\ ~Crashed
    /\ pc[c] = "read"
    /\ pc' = [pc EXCEPT ![c] = "scan"]
    /\ lines' = [lines EXCEPT ![c] = Split(resp[c].Body, CRLF)]
    /\ idx' = [idx EXCEPT ![c] = 1]
    /\ UNCHANGED <<mode, password, hash, request, resp, ret, delivered>>

\* A loop that keeps the match it found and goes on to the next line.
ScanLineNoReturn(c) ==
    /\ ~Crashed
    /\ pc[c] = "scan"
    /\ idx[c] <= Len(lines[c])
    /\ LET step == ScanStep(hash[c], lines[c][idx[c]])
       IN  CASE step.kind = "panic" ->
                  /\ pc' = [pc EXCEPT ![c] = "panicked"]
                  /\ UNCHANGED <<idx, ret>>
             [] step.kind = "return" ->
                  /\ ret' = [ret EXCEPT ![c] = step.ret]
                  /\ idx' = [idx EXCEPT ![c] = idx[c] + 1]
                  /\ UNCHANGED pc
             [] step.kind = "continue" ->
                  /\ idx' = [idx EXCEPT ![c] = idx[c] + 1]
                  /\ UNCHANGED <<pc, ret>>
    /\ UNCHANGED <<mode, password, hash, request, resp, lines, delivered>>

\* Lines 50-67: one iteration of the loop.
ScanLine(c) ==
    /\ ~Crashed
    /\ pc[c] = "scan"
    /\ idx[c] <= Len(lines[c])
    /\ LET step == ScanStep(hash[c], lines[c][idx[c]])
       IN  CASE step.kind = "panic" ->
                  /\ pc' = [pc EXCEPT ![c] = "panicked"]
                  /\ UNCHANGED <<idx, ret>>
             [] step.kind = "return" ->
                  /\ Return(c, step.ret)
                  /\ UNCHANGED idx
             [] step.kind = "continue" ->
                  /\ idx' = [idx EXCEPT ![c] = idx[c] + 1]
                  /\ UNCHANGED <<pc, ret>>
    /\ UNCHANGED <<mode, password, hash, request, resp, lines, delivered>>

\* Lines 69-73: the loop ends without a match.
ScanEnd(c) ==
    /\ ~Crashed
    /\ pc[c] = "scan"
    /\ idx[c] > Len(lines[c])
    /\ Return(c, ReturnResult(Result(FALSE, <<"0">>)))
    /\ UNCHANGED <<mode, password, hash, request, resp, lines, idx, delivered>>

\* Line 32: the goroutine passes what IsPwned returned to cb.
InvokeCallback(c) ==
    /\ ~Crashed
    /\ pc[c] = "returned"
    /\ mode[c] = "async"
    /\ pc' = [pc EXCEPT ![c] = "done"]
    /\ delivered' = [delivered EXCEPT ![c] = Append(delivered[c], ret[c])]
    /\ UNCHANGED <<mode, password, hash, request, resp, lines, idx, ret>>

\* One call, against every response of at most MaxLines lines.
Next ==
    \/ \E p \in Passwords : IsPwned("c1", p)
    \/ \E p \in Passwords : IsPwnedAsync("c1", p)
    \/ HttpGetFails("c1")
    \/ \E status \in Statuses, body \in Bodies : HttpGetResponds("c1", status, body)
    \/ ReadAllFails("c1")
    \/ ReadAll("c1")
    \/ ScanLine("c1")
    \/ ScanEnd("c1")
    \/ InvokeCallback("c1")

Spec == Init /\ [][Next]_vars

\* The responses of the two-call specification.
PairBodies ==
    LET one == Suffixes[1] \o Colon \o GoodCount
        two == Suffixes[2] \o Colon \o BadCount
    IN  { <<>>, one, two \o CRLF \o one \o CRLF }

\* Two calls at once, as two goroutines of IsPwnedAsync or two threads in IsPwned.
PairNext ==
    \E c \in Calls :
        \/ \E p \in Passwords : IsPwned(c, p)
        \/ \E p \in Passwords : IsPwnedAsync(c, p)
        \/ HttpGetFails(c)
        \/ \E status \in Statuses, body \in PairBodies : HttpGetResponds(c, status, body)
        \/ ReadAllFails(c)
        \/ ReadAll(c)
        \/ ScanLine(c)
        \/ ScanEnd(c)
        \/ InvokeCallback(c)

PairSpec == Init /\ [][PairNext]_vars

(***************************************************************************)
(* The vocabulary of the properties.  A response body is read here as the  *)
(* service documents it, by the positions of its CRLFs and of the colons   *)
(* of its lines, independently of strings.Split.                           *)
(***************************************************************************)
\* The positions at which a CRLF starts.
Breaks(b) == {k \in 1..(Len(b) - 1) : b[k] = "\r" /\ b[k + 1] = "\n"}

Least(S) == CHOOSE k \in S : \A j \in S : k <= j

\* The stretches of b between its CRLFs, in order.
Segments(b) ==
    LET starts     == {1} \cup {k + 2 : k \in Breaks(b)}
        startOf(j) == CHOOSE t \in starts : Cardinality({u \in starts : u < t}) = j - 1
        endOf(j)   == LET later == {k \in Breaks(b) : k >= startOf(j)}
                      IN  IF later = {} THEN Len(b) ELSE Least(later) - 1
    IN  AsSeq([j \in 1..Cardinality(starts) |-> SubSeq(b, startOf(j), endOf(j))])

\* The lines of b: a CRLF at the end terminates the last line, and the empty
\* body has no line.
ReceivedLines(b) ==
    LET segs == Segments(b)
    IN  IF segs[Len(segs)] = <<>> THEN SubSeq(segs, 1, Len(segs) - 1) ELSE segs

ColonsOf(line)   == {k \in 1..Len(line) : line[k] = ":"}
HasColon(line)   == ColonsOf(line) # {}
\* The text before the first colon.
SuffixText(line) == SubSeq(line, 1, Least(ColonsOf(line)) - 1)
\* The text after the first colon: the count of a SUFFIX:COUNT line.
CountText(line)  == SubSeq(line, Least(ColonsOf(line)) + 1, Len(line))
\* The text between the first colon and the second colon or the end of line.
CountField(line) ==
    LET first == Least(ColonsOf(line))
        rest  == ColonsOf(line) \ {first}
    IN  SubSeq(line, first + 1, IF rest = {} THEN Len(line) ELSE Least(rest) - 1)

\* A decimal non-negative integer.
IsDecimal(t)  == t # <<>> /\ \A k \in 1..Len(t) : t[k] \in Digits
\* A decimal non-negative integer of at most 2^64 - 1.
FitsUint64(t) == IsDecimal(t) /\ ~NumeralGreater(Numeral(t), MaxUint64)

WellFormedLine(line) ==
    /\ Cardinality(ColonsOf(line)) = 1
    /\ Len(SuffixText(line)) = 35
    /\ \A k \in 1..35 : \E d \in 1..16 : line[k] = UpperHex[d]
    /\ IsDecimal(CountText(line))

\* A body of well-formed lines separated by CRLF.
WellFormedBody(b) ==
    b = <<>> \/ \A i \in 1..Len(Segments(b)) : WellFormedLine(Segments(b)[i])

\* ReadAll has returned the body of call c.
BodyRead(c) == idx[c] >= 1
\* IsPwned has returned to its caller.
Returned(c) == pc[c] \in {"returned", "done"}
\* IsPwned has returned or has panicked.
Ended(c)    == Returned(c) \/ pc[c] = "panicked"

LinesOf(c) == ReceivedLines(resp[c].Body)

\* The suffix of the line appended to the 5-character prefix is the fingerprint.
LineMatches(c, line) ==
    HasColon(line) /\ SubSeq(hash[c].Hash, 1, 5) \o SuffixText(line) = hash[c].Hash

MatchesOf(c)  == {i \in 1..Len(LinesOf(c)) : LineMatches(c, LinesOf(c)[i])}
FirstMatch(c) == LinesOf(c)[Least(MatchesOf(c))]

Found(n)  == [result |-> [Pwned |-> TRUE, TimesObserved |-> n], err |-> "nil"]
NotFound  == [result |-> [Pwned |-> FALSE, TimesObserved |-> <<"0">>], err |-> "nil"]
IsResult(r) == r.result # [ptr |-> "nil"] /\ r.err = "nil"
IsError(r)  == r.result = [ptr |-> "nil"] /\ r.err # "nil"

(***************************************************************************)
(* The properties.                                                         *)
(***************************************************************************)
\* C1, as stated: for a body of well-formed SUFFIX:COUNT lines separated by
\* CRLF, every line whose suffix matches and whose count is a decimal
\* non-negative integer makes IsPwned return Pwned = true with that line's
\* count and a nil error.
C1_EveryMatchingLineReported ==
    \A c \in Calls :
        (Ended(c) /\ BodyRead(c) /\ WellFormedBody(resp[c].Body)) =>
            \A i \in MatchesOf(c) :
                IsDecimal(CountText(LinesOf(c)[i])) =>
                    Returned(c) /\ ret[c] = Found(Numeral(CountText(LinesOf(c)[i])))

\* C1, amended: for a body of well-formed SUFFIX:COUNT lines separated by
\* CRLF, if the earliest line whose suffix matches has a count that is a
\* decimal integer of at most 2^64 - 1, IsPwned returns Pwned = true with that
\* line's count and a nil error.
C1_FirstMatchingLineReported ==
    \A c \in Calls :
        (Ended(c) /\ BodyRead(c) /\ WellFormedBody(resp[c].Body) /\ MatchesOf(c) # {}) =>
            (FitsUint64(CountText(FirstMatch(c))) =>
                Returned(c) /\ ret[c] = Found(Numeral(CountText(FirstMatch(c)))))

\* A call that returned the count of a matching line that is not the first
\* line of a well-formed body.
C1_Witness ==
    \E c \in Calls :
        /\ Returned(c) /\ BodyRead(c) /\ WellFormedBody(resp[c].Body)
        /\ MatchesOf(c) # {} /\ Least(MatchesOf(c)) > 1
        /\ ret[c] = Found(Numeral(CountText(FirstMatch(c))))

\* C2: for a body in which no line's suffix matches, IsPwned returns
\* Pwned = false, TimesObserved = 0 and a nil error; the empty body and a body
\* whose last line is terminated by CRLF included.
C2_NoMatchReportsNotPwned ==
    \A c \in Calls :
        (Ended(c) /\ BodyRead(c) /\ MatchesOf(c) = {}) =>
            Returned(c) /\ ret[c] = NotFound

\* C3: the request is the endpoint followed by the first 5 characters of the
\* fingerprint; two calls whose fingerprints share those characters send the
\* same request, and the other 35 characters occur nowhere in a request.
C3_RequestDependsOnPrefixOnly ==
    /\ \A c \in Calls :
          pc[c] # "idle" =>
              /\ request[c] = Endpoint \o SubSeq(hash[c].Hash, 1, 5)
              /\ \A k \in 1..(Len(request[c]) - 34) :
                    SubSeq(request[c], k, k + 34) # SubSeq(hash[c].Hash, 6, 40)
    /\ \A c, d \in Calls :
          (pc[c] # "idle" /\ pc[d] # "idle"
              /\ SubSeq(hash[c].Hash, 1, 5) = SubSeq(hash[d].Hash, 1, 5)) =>
              request[c] = request[d]

\* Two calls with different passwords and fingerprints of the same prefix
\* have both sent their request.
C3_Witness ==
    \E c, d \in Calls :
        /\ pc[c] # "idle" /\ pc[d] # "idle"
        /\ password[c] # password[d]
        /\ hash[c].Hash # hash[d].Hash
        /\ SubSeq(hash[c].Hash, 1, 5) = SubSeq(hash[d].Hash, 1, 5)

\* C4: every return of IsPwned is a result with a nil error or a nil result
\* with an error, never both and never neither.
C4_ResultXorError ==
    \A c \in Calls : Returned(c) => (IsResult(ret[c]) /\ ~IsError(ret[c])) \/
                                    (IsError(ret[c]) /\ ~IsResult(ret[c]))

\* A call that returned because the count of the matching line did not parse.
C4_Witness ==
    \E c \in Calls : Returned(c) /\ BodyRead(c) /\ ret[c].err \in {"ErrSyntax", "ErrRange"}

\* C5: if the line whose suffix matches carries a count that is no decimal
\* non-negative integer, IsPwned returns a nil result and a non-nil error.
C5_BadCountOnMatchIsError ==
    \A c \in Calls :
        (Ended(c) /\ BodyRead(c) /\ MatchesOf(c) # {}
            /\ ~IsDecimal(CountText(FirstMatch(c)))) =>
            Returned(c) /\ IsError(ret[c])

\* C6: IsPwned never panics, and a body with a line that has no colon makes
\* it return a non-nil error.
C6_MissingColonIsError ==
    \A c \in Calls :
        /\ pc[c] # "panicked"
        /\ (Returned(c) /\ BodyRead(c)
               /\ \E i \in 1..Len(LinesOf(c)) : ~HasColon(LinesOf(c)[i])) =>
               IsError(ret[c])

\* C7: cb is invoked at most once, and once the goroutine of IsPwnedAsync has
\* ended cb has been invoked exactly once, with the pair IsPwned produced: a
\* result and no error, or no result and an error.
C7_CallbackExactlyOnce ==
    \A c \in Calls :
        mode[c] = "async" =>
            /\ Len(delivered[c]) <= 1
            /\ pc[c] \in {"done", "panicked"} =>
                  /\ delivered[c] = <<ret[c]>>
                  /\ IsResult(ret[c]) \/ IsError(ret[c])

C9_FirstMatchWins ==
    \A c \in Calls :
        BodyRead(c) =>
            /\ SubSeq(lines[c], 1, Len(LinesOf(c))) = LinesOf(c)
            /\ MatchesOf(c) # {} =>
                  /\ idx[c] <= Least(MatchesOf(c))
                  /\ (Ended(c) /\ idx[c] = Least(MatchesOf(c))) => Returned(c)
                  /\ Returned(c) =>
                        /\ idx[c] = Least(MatchesOf(c))
                        /\ IF FitsUint64(CountField(FirstMatch(c)))
                           THEN ret[c] = Found(Numeral(CountField(FirstMatch(c))))
                           ELSE IsError(ret[c])

\* A call that returned at the first of two matching lines with different
\* counts.
C9_Witness ==
    \E c \in Calls :
        /\ Returned(c) /\ BodyRead(c)
        /\ \E i, j \in MatchesOf(c) :
              /\ i < j /\ i = idx[c]
              /\ CountField(LinesOf(c)[i]) # CountField(LinesOf(c)[j])

\* Two calls with the same password that read the same body end alike,
\* whatever the status codes of their responses.
SameBodySameOutcome ==
    \A c, d \in Calls :
        (Ended(c) /\ Ended(d) /\ BodyRead(c) /\ BodyRead(d)
            /\ password[c] = password[d] /\ resp[c].Body = resp[d].Body) =>
            (Returned(c) <=> Returned(d)) /\ ret[c] = ret[d]

\* C10: the status code does not influence the outcome, so that a response
\* with a status outside 200..299 and no matching line in its body is
\* reported as Pwned = false with a nil error.
C10_StatusCodeIgnored ==
    /\ SameBodySameOutcome
    /\ \A c \in Calls :
          (Ended(c) /\ BodyRead(c) /\ resp[c].StatusCode \notin 200..299
              /\ MatchesOf(c) = {}) =>
              Returned(c) /\ ret[c] = NotFound

====
